---- MODULE Spec2Model ----
(***************************************************************************)
(* ProposalTarget (detection/core/bbox/bbox_target.py): the construction   *)
(* of the RCNN training targets of a batch of images.                      *)
(*                                                                         *)
(* Numbers.  Ratios (IoU values, thresholds, fractions, deltas) are exact  *)
(* rationals <<num, den>> with den > 0.  A normalized coordinate c of an   *)
(* image of shape (H, W) is stored as the integer c * Den, with            *)
(* Den = Grid * H * W, so that a proposal on the grid k / Grid and a       *)
(* ground-truth coordinate y / H are both exact.  float32 rounding is not  *)
(* modelled.  Indices are 1-based (the code's are 0-based).                *)
(***************************************************************************)
EXTENDS Integers, Sequences, FiniteSets, TLC

VARIABLES
    ctor_num_rcnn_deltas,     \* the num_rcnn_deltas argument given to __init__
    self,                     \* the ProposalTarget object's attributes
    proposals_list,           \* build_targets' arguments
    gt_boxes,
    gt_class_ids,
    img_metas,
    rois_list,                \* build_targets' three result lists
    rcnn_target_matchs_list,
    rcnn_target_deltas_list,
    i,                        \* the loop index of build_targets (images done)
    pc,                       \* "loop", "returned" or "raised"
    calls                     \* per finished image: the locals of _build_single_target

vars == <<ctor_num_rcnn_deltas, self, proposals_list, gt_boxes, gt_class_ids,
          img_metas, rois_list, rcnn_target_matchs_list,
          rcnn_target_deltas_list, i, pc, calls>>

----------------------------------------------------------------------------
(* Bounds of the model *)

MaxProposals == 2
MaxGt == 3
Grid == 4
MaxBatch == 2

(* Program constants *)

DefaultNumRcnnDeltas == 512
HardcodedNumRcnnDeltas == 512

----------------------------------------------------------------------------
(* Arithmetic *)

Min(a, b) == IF a <= b THEN a ELSE b
Max(a, b) == IF a >= b THEN a ELSE b

RatGE(a, b) == a[1] * b[2] >= b[1] * a[2]
RatLT(a, b) == a[1] * b[2] < b[1] * a[2]

\* int(n * f): a float product truncated towards zero (n, f >= 0)
IntOfProduct(n, f) == (n * f[1]) \div f[2]

\* 1.0 / f
Reciprocal(f) == <<f[2], f[1]>>

\* The value of an empty float reduction with max: -infinity
NegInf == <<-1, 1>>

----------------------------------------------------------------------------
(* TensorFlow operations used by the code *)

Range(n) == [k \in 1..n |-> k]

\* tf.where(mask)[:, 0]: the indices of the true entries, ascending
where(mask) ==
    LET T(k) == mask[k] IN SelectSeq(Range(Len(mask)), T)

\* tf.gather(params, indices)
gather(params, indices) == [k \in 1..Len(indices) |-> params[indices[k]]]

\* tf.boolean_mask(tensor, mask)
boolean_mask(tensor, mask) == gather(tensor, where(mask))

\* tensor[:count] for count >= 0
take(tensor, count) == SubSeq(tensor, 1, Min(count, Len(tensor)))

\* tf.argmax of one row: the first index of the largest entry
argmax_row(row) ==
    CHOOSE j \in 1..Len(row) :
        /\ \A k \in 1..Len(row) : RatGE(row[j], row[k])
        /\ \A k \in 1..(j - 1) : ~RatGE(row[k], row[j])

\* tf.argmax(matrix, axis=1).  The ArgMax kernel rejects an empty reduction
\* axis ("Reduction axis 1 is empty in shape [n,0]"): ArgmaxRaises.
ArgmaxRaises(ncols) == ncols = 0
argmax(matrix) == [k \in 1..Len(matrix) |-> argmax_row(matrix[k])]

\* tf.reduce_max(matrix, axis=1)
reduce_max(matrix) ==
    [k \in 1..Len(matrix) |->
        IF Len(matrix[k]) = 0 THEN NegInf ELSE matrix[k][argmax_row(matrix[k])]]

\* tf.pad(vector, [(0, n)]): n zeros appended
pad(vector, n) == vector \o [k \in 1..n |-> 0]

Reverse(s) == [k \in 1..Len(s) |-> s[Len(s) + 1 - k]]
RotateLeft(s) == IF Len(s) = 0 THEN s ELSE Tail(s) \o <<Head(s)>>

Perms(n) == {p \in [1..n -> 1..n] : \A a, b \in 1..n : p[a] = p[b] => a = b}

\* tf.random_shuffle(s): the set of its outcomes.  Every permutation of a
\* sequence of at most MaxProposals + 1 entries; of a longer sequence (the
\* bulk images below) three of its permutations.
random_shuffle(s) ==
    IF Len(s) <= MaxProposals + 1
    THEN {gather(s, p) : p \in Perms(Len(s))}
    ELSE {s, Reverse(s), RotateLeft(s)}

----------------------------------------------------------------------------
(* The collaborators of bbox_target.py (geometry, transforms, utils.misc) *)

ZeroRow == <<0, 0, 0, 0>>

Abs(x) == IF x < 0 THEN -x ELSE x

\* utils.misc.trim_zeros(boxes): the rows that are not all zeros, and the mask
trim_zeros(boxes) ==
    LET non_zeros == [k \in 1..Len(boxes) |->
            Abs(boxes[k][1]) + Abs(boxes[k][2]) + Abs(boxes[k][3]) + Abs(boxes[k][4]) # 0]
    IN  <<boolean_mask(boxes, non_zeros), non_zeros>>

\* utils.misc.calc_img_shapes(img_metas): each image's (height, width)
calc_img_shapes(metas) == [k \in 1..Len(metas) |-> metas[k].img_shape]

Area(b) == Max(b[3] - b[1], 0) * Max(b[4] - b[2], 0)

\* The IoU of two boxes: intersection / union, and 0 when the union is empty
iou(b1, b2) ==
    LET h == Max(Min(b1[3], b2[3]) - Max(b1[1], b2[1]), 0)
        w == Max(Min(b1[4], b2[4]) - Max(b1[2], b2[2]), 0)
        inter == h * w
        union == Area(b1) + Area(b2) - inter
    IN  IF union = 0 THEN <<0, 1>> ELSE <<inter, union>>

\* geometry.compute_overlaps(boxes1, boxes2): the matrix [|boxes1|, |boxes2|]
compute_overlaps(boxes1, boxes2) ==
    [a \in 1..Len(boxes1) |-> [b \in 1..Len(boxes2) |-> iou(boxes1[a], boxes2[b])]]

\* (value - mean) / std of a rational value
Standardize(v, mean, std) ==
    <<(v[1] * mean[2] - mean[1] * v[2]) * std[2], v[2] * mean[2] * std[1]>>

\* transforms.bbox2delta of one pair of boxes: (dy, dx, log(dh), log(dw)),
\* standardized.  dy and dx are rationals; a logarithm is kept as its argument
\* [log |-> <<num, den>>] with the mean and std applied to it.
delta_of(src, dst, means, stds) ==
    LET h == src[3] - src[1]
        w == src[4] - src[2]
        gh == dst[3] - dst[1]
        gw == dst[4] - dst[2]
    IN  << Standardize(<<(dst[1] + dst[3]) - (src[1] + src[3]), 2 * h>>, means[1], stds[1]),
           Standardize(<<(dst[2] + dst[4]) - (src[2] + src[4]), 2 * w>>, means[2], stds[2]),
           [log |-> <<gh, h>>, mean |-> means[3], std |-> stds[3]],
           [log |-> <<gw, w>>, mean |-> means[4], std |-> stds[4]] >>

bbox2delta(src_boxes, dst_boxes, means, stds) ==
    [k \in 1..Len(src_boxes) |-> delta_of(src_boxes[k], dst_boxes[k], means, stds)]

----------------------------------------------------------------------------
(* ProposalTarget *)

TargetMeans == << <<0, 1>>, <<0, 1>>, <<0, 1>>, <<0, 1>> >>
TargetStds == << <<1, 10>>, <<1, 10>>, <<1, 5>>, <<1, 5>> >>

\* __init__(target_means, target_stds, num_rcnn_deltas)
ProposalTarget(target_means, target_stds, num_rcnn_deltas) ==
    [ target_means |-> target_means,
      target_stds |-> target_stds,
      num_rcnn_deltas |-> HardcodedNumRcnnDeltas,
      roi_positive_fraction |-> <<1, 4>>,
      pos_iou_thr |-> <<1, 2>>,
      neg_iou_thr |-> <<1, 2>> ]

\* Den / H and Den / W of an image: the factors that divide by H and by W
Den(img_shape) == Grid * img_shape[1] * img_shape[2]

\* gt_boxes / tf.constant([H, W, H, W])
normalize_gt(boxes, img_shape) ==
    LET H == img_shape[1]
        W == img_shape[2]
        fy == Den(img_shape) \div H
        fx == Den(img_shape) \div W
    IN  [k \in 1..Len(boxes) |->
            <<boxes[k][1] * fy, boxes[k][2] * fx, boxes[k][3] * fy, boxes[k][4] * fx>>]

\* A variant that leaves the class IDs unmasked
mask_class_ids_unmasked(class_ids, non_zeros) == class_ids

\* tf.boolean_mask(gt_class_ids, non_zeros)
mask_class_ids(class_ids, non_zeros) == boolean_mask(class_ids, non_zeros)

\* roi_iou_max >= self.pos_iou_thr
positive_roi_bool(obj, roi_iou_max) ==
    [k \in 1..Len(roi_iou_max) |-> RatGE(roi_iou_max[k], obj.pos_iou_thr)]

\* A variant with roi_iou_max <= self.neg_iou_thr
negative_roi_bool_inclusive(obj, roi_iou_max) ==
    [k \in 1..Len(roi_iou_max) |-> RatGE(obj.neg_iou_thr, roi_iou_max[k])]

\* roi_iou_max < self.neg_iou_thr
negative_roi_bool(obj, roi_iou_max) ==
    [k \in 1..Len(roi_iou_max) |-> RatLT(roi_iou_max[k], obj.neg_iou_thr)]

\* _build_single_target up to the shuffles: trimming, normalization, overlaps
\* and the positive and negative candidates
match_proposals(obj, proposals, boxes, class_ids, img_shape) ==
    LET trimmed == trim_zeros(boxes)
        non_zeros == trimmed[2]
        ids == mask_class_ids(class_ids, non_zeros)
        gts == normalize_gt(trimmed[1], img_shape)
        overlaps == compute_overlaps(proposals, gts)
        raised == ArgmaxRaises(Len(gts))
        roi_iou_max == reduce_max(overlaps)
    IN  [ raised |-> raised,
          gt_boxes |-> gts,
          gt_class_ids |-> ids,
          overlaps |-> overlaps,
          positive_indices |->
              IF raised THEN <<>> ELSE where(positive_roi_bool(obj, roi_iou_max)),
          negative_indices |->
              IF raised THEN <<>> ELSE where(negative_roi_bool(obj, roi_iou_max)) ]

\* Variants: the fraction left out; the 33% of the comment above the code
positive_cap_whole(obj) == obj.num_rcnn_deltas
positive_cap_third(obj) == IntOfProduct(obj.num_rcnn_deltas, <<1, 3>>)

\* int(self.num_rcnn_deltas * self.roi_positive_fraction)
positive_cap(obj) == IntOfProduct(obj.num_rcnn_deltas, obj.roi_positive_fraction)

\* A variant that does not subtract positive_count
negative_cap_total(obj, positive_count) ==
    IntOfProduct(positive_count, Reciprocal(obj.roi_positive_fraction))

\* tf.cast(r * tf.cast(positive_count, tf.float32), tf.int32) - positive_count
negative_cap(obj, positive_count) ==
    IntOfProduct(positive_count, Reciprocal(obj.roi_positive_fraction)) - positive_count

\* A variant without the padding
pad_matchs_unpadded(target_matchs, negative_rois) == target_matchs

\* target_matchs: the matched class IDs, padded with N zeros
pad_matchs(target_matchs, negative_rois) == pad(target_matchs, Len(negative_rois))

\* A variant with the negatives first
concat_rois_negatives_first(positive_rois, negative_rois) ==
    negative_rois \o positive_rois

\* rois = tf.concat([positive_rois, negative_rois], axis=0)
concat_rois(positive_rois, negative_rois) == positive_rois \o negative_rois

\* _build_single_target after the shuffles, given their outcomes
sample_targets(obj, proposals, m, shuffled_pos, shuffled_neg) ==
    LET positive_indices == take(shuffled_pos, positive_cap(obj))
        positive_count == Len(positive_indices)
        negative_count == negative_cap(obj, positive_count)
        negative_indices == take(shuffled_neg, negative_count)
        positive_rois == gather(proposals, positive_indices)
        negative_rois == gather(proposals, negative_indices)
        positive_overlaps == gather(m.overlaps, positive_indices)
        roi_gt_box_assignment == argmax(positive_overlaps)
        roi_gt_boxes == gather(m.gt_boxes, roi_gt_box_assignment)
        target_matchs == gather(m.gt_class_ids, roi_gt_box_assignment)
        target_deltas == bbox2delta(positive_rois, roi_gt_boxes,
                                    obj.target_means, obj.target_stds)
    IN  [ rois |-> concat_rois(positive_rois, negative_rois),
          target_matchs |-> pad_matchs(target_matchs, negative_rois),
          target_deltas |-> target_deltas,
          positive_count |-> positive_count,
          negative_count |-> negative_count,
          kept_negatives |-> Len(negative_rois),
          roi_gt_box_assignment |-> roi_gt_box_assignment ]

----------------------------------------------------------------------------
(* Inputs *)

SeqsUpTo(S, n) == UNION {[1..k -> S] : k \in 0..n}

\* Proposal boxes on the grid k / Grid, all of positive height and width
GridBoxes == { <<0, 0, 2, 2>>, <<0, 0, 2, 3>>, <<1, 1, 4, 4>> }

\* Ground-truth rows in image coordinates, the padding row among them
GtRows == { ZeroRow, <<0, 0, 1, 2>>, <<0, 0, 1, 4>> }

\* The shape of the small images; the bulk and batch images also use (4, 4)
SmallShape == <<2, 4>>

ToDen(boxes, img_shape) ==
    LET f == img_shape[1] * img_shape[2]
    IN  [k \in 1..Len(boxes) |->
            <<boxes[k][1] * f, boxes[k][2] * f, boxes[k][3] * f, boxes[k][4] * f>>]

Image(grid_proposals, boxes, img_shape) ==
    [ proposals |-> ToDen(grid_proposals, img_shape),
      gt_boxes |-> boxes,
      gt_class_ids |-> Range(Len(boxes)),
      img_meta |-> [img_shape |-> img_shape] ]

\* Every image of at most MaxProposals proposals and MaxGt ground-truth rows;
\* the class ID of row k is k
SmallImages ==
    { Image(p, g, SmallShape) : p \in SeqsUpTo(GridBoxes, MaxProposals),
                                g \in SeqsUpTo(GtRows, MaxGt) }

Copies(x, n) == [k \in 1..n |-> x]

\* Bulk images: np copies of a box that matches the ground truth followed by
\* nn copies of one that does not, with counts around the two caps
BulkCap == IntOfProduct(HardcodedNumRcnnDeltas, <<1, 4>>)
BulkCounts ==
    { <<1, 2>>, <<2, 1>>, <<1, 4>>, <<2, 5>>, <<2, 7>>,
      <<BulkCap - 1, 0>>, <<BulkCap, 0>>, <<BulkCap + 1, 0>>,
      <<BulkCap, 3 * BulkCap - 1>>, <<BulkCap + 1, 3 * BulkCap + 1>> }
BulkImages ==
    { Image(Copies(<<0, 0, 2, 2>>, c[1]) \o Copies(<<1, 1, 4, 4>>, c[2]),
            << <<0, 0, 1, 2>>, ZeroRow >>, s) : c \in BulkCounts,
                                                s \in {<<2, 4>>, <<4, 4>>} }

\* Images of the batches of more than one image
BatchImages ==
    { Image(<<>>, << <<0, 0, 1, 2>> >>, <<2, 4>>),
      Image(<< <<0, 0, 2, 2>> >>, << ZeroRow >>, <<2, 4>>),
      Image(<< <<0, 0, 2, 2>>, <<0, 0, 2, 3>> >>, << <<0, 0, 1, 4>> >>, <<2, 4>>),
      Image(<< <<1, 1, 4, 4>>, <<0, 0, 2, 2>>, <<1, 1, 4, 4>> >>,
            << ZeroRow, <<0, 0, 1, 2>> >>, <<4, 4>>) }

Batches ==
    { <<img>> : img \in SmallImages \cup BulkImages }
        \cup UNION { [1..n -> BatchImages] : n \in 2..MaxBatch }

CtorArgs == {1, DefaultNumRcnnDeltas}

----------------------------------------------------------------------------
(* The state machine *)

Init ==
    /\ ctor_num_rcnn_deltas \in CtorArgs
    /\ self = ProposalTarget(TargetMeans, TargetStds, ctor_num_rcnn_deltas)
    /\ \E batch \in Batches :
        /\ proposals_list = [k \in 1..Len(batch) |-> batch[k].proposals]
        /\ gt_boxes = [k \in 1..Len(batch) |-> batch[k].gt_boxes]
        /\ gt_class_ids = [k \in 1..Len(batch) |-> batch[k].gt_class_ids]
        /\ img_metas = [k \in 1..Len(batch) |-> batch[k].img_meta]
    /\ rois_list = <<>>
    /\ rcnn_target_matchs_list = <<>>
    /\ rcnn_target_deltas_list = <<>>
    /\ i = 0
    /\ pc = "loop"
    /\ calls = <<>>

\* A variant that always takes the first image's slice
batch_item_first(tensor, n) == tensor[1]

\* proposals_list[i], gt_boxes[i], gt_class_ids[i], img_shapes[i]
batch_item(tensor, n) == tensor[n]

\* One iteration of the loop of build_targets: _build_single_target on image
\* i, which raises or appends its three results
build_targets_iteration ==
    /\ pc = "loop"
    /\ i < Len(img_metas)
    /\ LET n == i + 1
           img_shapes == calc_img_shapes(img_metas)
           proposals == batch_item(proposals_list, n)
       IN  \E m \in {match_proposals(self, proposals, batch_item(gt_boxes, n),
                                     batch_item(gt_class_ids, n),
                                     batch_item(img_shapes, n))} :
           IF m.raised
           THEN /\ pc' = "raised"
                /\ UNCHANGED <<rois_list, rcnn_target_matchs_list,
                               rcnn_target_deltas_list, i, calls>>
           ELSE \E sp \in random_shuffle(m.positive_indices),
                   sn \in random_shuffle(m.negative_indices) :
                    \E r \in {sample_targets(self, proposals, m, sp, sn)} :
                        /\ rois_list' = Append(rois_list, r.rois)
                        /\ rcnn_target_matchs_list' =
                               Append(rcnn_target_matchs_list, r.target_matchs)
                        /\ rcnn_target_deltas_list' =
                               Append(rcnn_target_deltas_list, r.target_deltas)
                        /\ i' = i + 1
                        /\ calls' = Append(calls,
                               [ shuffled_pos |-> sp,
                                 shuffled_neg |-> sn,
                                 positive_count |-> r.positive_count,
                                 negative_count |-> r.negative_count,
                                 kept_negatives |-> r.kept_negatives ])
                        /\ pc' = pc
    /\ UNCHANGED <<ctor_num_rcnn_deltas, self, proposals_list, gt_boxes,
                   gt_class_ids, img_metas>>

\* return rois_list, rcnn_target_matchs_list, rcnn_target_deltas_list
build_targets_return ==
    /\ pc = "loop"
    /\ i = Len(img_metas)
    /\ pc' = "returned"
    /\ UNCHANGED <<ctor_num_rcnn_deltas, self, proposals_list, gt_boxes,
                   gt_class_ids, img_metas, rois_list, rcnn_target_matchs_list,
                   rcnn_target_deltas_list, i, calls>>

Next == build_targets_iteration \/ build_targets_return

Spec == Init /\ [][Next]_vars

----------------------------------------------------------------------------
(* What the claims speak of, stated on the inputs and outputs of image k *)

Done == 1..Len(calls)

ImgShape(k) == img_metas[k].img_shape

\* The ground-truth rows of image k that are not padding
RealRows(k) == {g \in 1..Len(gt_boxes[k]) : gt_boxes[k][g] # ZeroRow}

\* Row g of image k in normalized coordinates: (y / H, x / W, y / H, x / W)
NormalizedRow(k, g) ==
    LET H == ImgShape(k)[1]
        W == ImgShape(k)[2]
        b == gt_boxes[k][g]
    IN  <<b[1] * Grid * W, b[2] * Grid * H, b[3] * Grid * W, b[4] * Grid * H>>

IoUWith(box, k, g) == iou(box, NormalizedRow(k, g))

\* The maximum IoU of box over the real rows of image k is >= thr; is < thr
BestIoUAtLeast(box, k, thr) == \E g \in RealRows(k) : RatGE(IoUWith(box, k, g), thr)
BestIoUBelow(box, k, thr) == \A g \in RealRows(k) : RatLT(IoUWith(box, k, g), thr)

\* Row g has the maximum IoU against box among the real rows of image k
IsBestRow(box, k, g) ==
    /\ g \in RealRows(k)
    /\ \A h \in RealRows(k) : RatGE(IoUWith(box, k, g), IoUWith(box, k, h))

PositiveCandidates(k) ==
    {j \in 1..Len(proposals_list[k]) :
        BestIoUAtLeast(proposals_list[k][j], k, self.pos_iou_thr)}
NegativeCandidates(k) ==
    {j \in 1..Len(proposals_list[k]) :
        BestIoUBelow(proposals_list[k][j], k, self.neg_iou_thr)}

\* round() of a non-negative rational, halves to even
Round(q) ==
    LET whole == q[1] \div q[2]
        twice == 2 * (q[1] % q[2])
    IN  IF twice < q[2] THEN whole
        ELSE IF twice > q[2] THEN whole + 1
        ELSE IF whole % 2 = 0 THEN whole ELSE whole + 1

\* round(positive_count / roi_positive_fraction) - positive_count
RequestedNegatives(p) ==
    Round(<<p * self.roi_positive_fraction[2], self.roi_positive_fraction[1]>>) - p

----------------------------------------------------------------------------
(* C1: for every image and every outcome of the two shuffles the result has
   len(rois) = positive_count + negative_count (the kept positives and kept
   negatives), len(rois) <= num_rcnn_deltas (512), len(target_matches) =
   len(rois) and len(target_deltas) = positive_count. *)
C1_ResultLengths ==
    \A k \in Done :
        /\ Len(rois_list[k]) = calls[k].positive_count + calls[k].kept_negatives
        /\ Len(rois_list[k]) <= HardcodedNumRcnnDeltas
        /\ Len(rcnn_target_matchs_list[k]) = Len(rois_list[k])
        /\ Len(rcnn_target_deltas_list[k]) = calls[k].positive_count

\* An image whose result fills the cap with positives and negatives
C1_Witness ==
    \E k \in Done :
        /\ Len(rois_list[k]) = HardcodedNumRcnnDeltas
        /\ calls[k].positive_count > 0
        /\ calls[k].kept_negatives > 0
        /\ Len(rcnn_target_matchs_list[k]) = HardcodedNumRcnnDeltas

(* C2 as stated: for every image self.num_rcnn_deltas >= num_rois >
   num_positive_rois. *)
C2_StrictlyMoreRoisThanPositives ==
    \A k \in Done :
        /\ self.num_rcnn_deltas >= Len(rois_list[k])
        /\ Len(rois_list[k]) > Len(rcnn_target_deltas_list[k])

(* C2 amended: for every image of a batch self.num_rcnn_deltas >= num_rois >=
   num_positive_rois: the ROIs returned are at least as many as the rows of
   target_deltas and at most num_rcnn_deltas. *)
C2_AtLeastAsManyRoisAsPositives ==
    \A k \in Done :
        /\ self.num_rcnn_deltas >= Len(rois_list[k])
        /\ Len(rois_list[k]) >= Len(rcnn_target_deltas_list[k])

\* An image all of whose ROIs are positive
C2_Witness ==
    \E k \in Done :
        /\ Len(rcnn_target_deltas_list[k]) > 0
        /\ Len(rois_list[k]) = Len(rcnn_target_deltas_list[k])

(* C3: the num_rcnn_deltas given to the constructor is the maximal number of
   ROIs per image: every image's rois has length <= that argument. *)
C3_CtorArgumentIsTheCap ==
    \A k \in Done : Len(rois_list[k]) <= ctor_num_rcnn_deltas

(* C4: every ROI of the positive prefix (the first positive_count rows of rois)
   has maximum IoU >= pos_iou_thr over the trimmed, normalized ground truth,
   and every ROI after the prefix has maximum IoU < neg_iou_thr. *)
C4_PrefixPositiveRestNegative ==
    \A k \in Done :
        \A j \in 1..Len(rois_list[k]) :
            IF j <= calls[k].positive_count
            THEN BestIoUAtLeast(rois_list[k][j], k, self.pos_iou_thr)
            ELSE BestIoUBelow(rois_list[k][j], k, self.neg_iou_thr)

\* A positive ROI whose maximum IoU is exactly pos_iou_thr, beside a negative
C4_Witness ==
    \E k \in Done :
        /\ calls[k].kept_negatives > 0
        /\ \E j \in 1..calls[k].positive_count :
            /\ BestIoUAtLeast(rois_list[k][j], k, self.pos_iou_thr)
            /\ \A g \in RealRows(k) :
                   RatGE(self.pos_iou_thr, IoUWith(rois_list[k][j], k, g))

(* C5: the kept negative count is min(round(positive_count /
   roi_positive_fraction) - positive_count, number of negative candidates) and
   never negative; with fewer candidates than requested all are kept and no
   error occurs (an image with a real ground-truth row never raises);
   positive_count = 0 yields no negatives. *)
C5_KeptNegatives ==
    /\ \A k \in Done :
        LET p == calls[k].positive_count
            kept == calls[k].kept_negatives
        IN  /\ kept = Min(RequestedNegatives(p), Cardinality(NegativeCandidates(k)))
            /\ kept >= 0
            /\ kept = Len(rois_list[k]) - p
            /\ p = 0 => kept = 0
    /\ pc = "raised" => RealRows(i + 1) = {}

\* Fewer negative candidates than requested, all of them kept
C5_Witness ==
    \E k \in Done :
        /\ Cardinality(NegativeCandidates(k)) > 0
        /\ Cardinality(NegativeCandidates(k)) < RequestedNegatives(calls[k].positive_count)
        /\ calls[k].kept_negatives = Cardinality(NegativeCandidates(k))

(* C6: the kept positive count is min(number of proposals with best IoU >=
   pos_iou_thr, floor(num_rcnn_deltas * roi_positive_fraction)), hence <= 128,
   and below the cap only when too few positive candidates exist. *)
C6_KeptPositives ==
    \A k \in Done :
        LET cap == (self.num_rcnn_deltas * self.roi_positive_fraction[1])
                       \div self.roi_positive_fraction[2]
        IN  /\ calls[k].positive_count = Min(Cardinality(PositiveCandidates(k)), cap)
            /\ calls[k].positive_count <= 128
            /\ cap = 128

\* More positive candidates than the cap, 128 of them kept
C6_Witness ==
    \E k \in Done :
        /\ Cardinality(PositiveCandidates(k)) > 128
        /\ calls[k].positive_count = 128

(* C7: rois is the kept positive boxes followed by the kept negative boxes and
   target_matches is aligned with it: for k < positive_count the label is the
   class ID of a ground-truth box with maximum IoU against rois[k] (the class
   ID of that box's own row) and target_deltas[k] is computed from rois[k] and
   that same box; for k >= positive_count the label is 0. *)
C7_PositivesFirstAligned ==
    \A k \in Done :
        LET p == calls[k].positive_count
            sp == calls[k].shuffled_pos
            sn == calls[k].shuffled_neg
        IN  /\ Len(rois_list[k]) = p + calls[k].kept_negatives
            /\ Len(rcnn_target_matchs_list[k]) = Len(rois_list[k])
            /\ Len(rcnn_target_deltas_list[k]) = p
            /\ {sp[j] : j \in 1..Len(sp)} = PositiveCandidates(k)
            /\ {sn[j] : j \in 1..Len(sn)} = NegativeCandidates(k)
            /\ \A j \in 1..p :
                /\ rois_list[k][j] = proposals_list[k][sp[j]]
                /\ \E g \in RealRows(k) :
                    /\ IsBestRow(rois_list[k][j], k, g)
                    /\ rcnn_target_matchs_list[k][j] = gt_class_ids[k][g]
                    /\ rcnn_target_deltas_list[k][j] =
                           delta_of(rois_list[k][j], NormalizedRow(k, g),
                                    self.target_means, self.target_stds)
            /\ \A j \in (p + 1)..Len(rois_list[k]) :
                /\ rois_list[k][j] = proposals_list[k][sn[j - p]]
                /\ rcnn_target_matchs_list[k][j] = 0

\* A positive matched to a row that follows a padding row, beside a negative
C7_Witness ==
    \E k \in Done :
        /\ calls[k].kept_negatives > 0
        /\ \E j \in 1..calls[k].positive_count :
            \E g \in RealRows(k) :
                /\ IsBestRow(rois_list[k][j], k, g)
                /\ rcnn_target_matchs_list[k][j] = gt_class_ids[k][g]
                /\ \E z \in 1..(g - 1) : gt_boxes[k][z] = ZeroRow

(* C8: when an image's ground-truth boxes are all zero rows, then for any
   number of proposals rois, target_matches and target_deltas have length 0
   for that image and no error is raised. *)
C8_AllZeroGroundTruthGivesEmptyResult ==
    \A n \in 1..Len(img_metas) :
        (Len(gt_boxes[n]) > 0 /\ RealRows(n) = {}) =>
            /\ ~(pc = "raised" /\ i + 1 = n)
            /\ n \in Done =>
                /\ Len(rois_list[n]) = 0
                /\ Len(rcnn_target_matchs_list[n]) = 0
                /\ Len(rcnn_target_deltas_list[n]) = 0

(* C9: build_targets returns three lists with one element per image, in image
   order; element k is the result of _build_single_target on image k's own
   proposals, ground truth, class IDs and shape under that image's shuffle
   outcomes, whatever the other images are; the ProposalTarget object is not
   modified. *)
C9_PerImageFanOut ==
    /\ Len(rois_list) = i
    /\ Len(rcnn_target_matchs_list) = i
    /\ Len(rcnn_target_deltas_list) = i
    /\ Len(calls) = i
    /\ i <= Len(img_metas)
    /\ pc = "returned" => i = Len(img_metas)
    /\ self = ProposalTarget(TargetMeans, TargetStds, ctor_num_rcnn_deltas)
    /\ \A k \in Done :
        \E m \in {match_proposals(self, proposals_list[k], gt_boxes[k],
                                  gt_class_ids[k], ImgShape(k))} :
        \E r \in {sample_targets(self, proposals_list[k], m,
                                 calls[k].shuffled_pos, calls[k].shuffled_neg)} :
            /\ ~m.raised
            /\ calls[k].shuffled_pos \in random_shuffle(m.positive_indices)
            /\ calls[k].shuffled_neg \in random_shuffle(m.negative_indices)
            /\ rois_list[k] = r.rois
            /\ rcnn_target_matchs_list[k] = r.target_matchs
            /\ rcnn_target_deltas_list[k] = r.target_deltas

\* A returned batch of two images with results of different lengths
C9_Witness ==
    /\ pc = "returned"
    /\ Len(rois_list) = 2
    /\ Len(rois_list[1]) > Len(rois_list[2])
    /\ Len(rois_list[2]) > 0
    /\ proposals_list[1] # proposals_list[2]

\* The rows of image k that are not padding, ascending
KeptRows(k) == where([g \in 1..Len(gt_boxes[k]) |-> gt_boxes[k][g] # ZeroRow])

(* C10: an all-zero ground-truth row is excluded from matching wherever it
   sits: no positive ROI is matched to it, its class ID is never a label
   because of it, and the kept ROIs, labels and deltas are those of the input
   with the all-zero rows and their class IDs deleted. *)
C10_ZeroRowsAsIfDeleted ==
    /\ \A k \in Done :
        \E m \in {match_proposals(self, proposals_list[k],
                                  gather(gt_boxes[k], KeptRows(k)),
                                  gather(gt_class_ids[k], KeptRows(k)),
                                  ImgShape(k))} :
        \E r \in {sample_targets(self, proposals_list[k], m,
                                 calls[k].shuffled_pos, calls[k].shuffled_neg)} :
            /\ ~m.raised
            /\ calls[k].shuffled_pos \in random_shuffle(m.positive_indices)
            /\ calls[k].shuffled_neg \in random_shuffle(m.negative_indices)
            /\ rois_list[k] = r.rois
            /\ rcnn_target_matchs_list[k] = r.target_matchs
            /\ rcnn_target_deltas_list[k] = r.target_deltas
            /\ \A j \in 1..calls[k].positive_count :
                   rcnn_target_matchs_list[k][j] \in
                       {gt_class_ids[k][g] : g \in RealRows(k)}
    /\ pc = "raised" => KeptRows(i + 1) = <<>>

\* Padding rows first, between and last, and a positive matched behind them
C10_Witness ==
    \E k \in Done :
        /\ Len(gt_boxes[k]) = 3
        /\ gt_boxes[k][2] = ZeroRow
        /\ gt_boxes[k][1] # ZeroRow
        /\ calls[k].positive_count > 0
        /\ rcnn_target_matchs_list[k][1] = gt_class_ids[k][3]

====
